---- MODULE Spec2Model ----
(***************************************************************************)
(* Model of src/main.py: the S&P 500 one-year-return command line tool.    *)
(*                                                                         *)
(* One process run: main() parses the command line, calls                  *)
(* get_sp500_year_return() (two provider queries and one division), and    *)
(* either renders the result (display_json / display_return) or exits 1.   *)
(*                                                                         *)
(* Abstractions:                                                           *)
(*  - a price is an integer number of cents (a float with two decimals);   *)
(*  - year_return, a float in the code, is the exact rational num/den      *)
(*    ((current - year_ago) * 100 over year_ago); its sign and its         *)
(*    rounding to two decimals are computed from that rational;            *)
(*  - a DataFrame is the sequence of its rows, oldest first, each row the  *)
(*    index timestamp and the Close column;                                *)
(*  - standard output is the sequence of print() calls, each the sequence  *)
(*    of the pieces its f-string concatenates.                             *)
(***************************************************************************)
EXTENDS Integers, Sequences, FiniteSets, TLC

VARIABLES
    argv,            \* sys.argv[1:], as the set of arguments given
    isatty,          \* sys.stdout.isatty() of this process
    pc,              \* position of main(): Start, Fetching, Rendering, Failed, Exit
    fpc,             \* position inside get_sp500_year_return()
    args,            \* the parsed argparse namespace
    current_data,    \* sp500.history(period='1d')
    historical_data, \* sp500.history(period='1y')
    current_price,   \* local of get_sp500_year_return
    year_ago_price,  \* local of get_sp500_year_return
    data,            \* main's data: the result dict or None
    out,             \* what has been printed to standard output
    bound,           \* the locals of get_sp500_year_return() that are assigned
    calls,           \* how often each provider query / display function ran
    exit_code        \* the process exit status, NoExit while running

vars == <<argv, isatty, pc, fpc, args, current_data, historical_data,
          current_price, year_ago_price, bound, data, out, calls, exit_code>>

-----------------------------------------------------------------------------
(* Bounds of the model *)

MaxCur == 2
MaxHist == 3
NumDays == 2

\* Close prices the provider may report, in cents: 0.00, 4499.99, 4500.00, 5000.00
Closes == {0, 449999, 450000, 500000}

\* Index timestamps of the latest-data rows: 2024-01-01 .. 2024-01-NumDays
Timestamps == {[year |-> 2024, month |-> 1, day |-> d] : d \in 1..NumDays}

\* Command-line arguments a run may be given
Arguments == {"--json", "--no-color", "--help", "--bogus"}

-----------------------------------------------------------------------------
(* Values *)

None == [tag |-> "None"]
\* the value of main's args and data before they are assigned
Unbound == [tag |-> "unbound"]
\* the process has not exited
NoExit == -1

RECURSIVE SeqsUpTo(_, _)
SeqsUpTo(S, n) ==
    IF n = 0 THEN {<<>>}
    ELSE LET shorter == SeqsUpTo(S, n - 1)
         IN  shorter \cup {Append(s, x) : s \in {t \in shorter : Len(t) = n - 1}, x \in S}

\* DataFrames the '1d' query may return: rows ordered by a strictly
\* increasing DatetimeIndex.
CurrentFrames ==
    {f \in SeqsUpTo([index : Timestamps, Close : Closes], MaxCur) :
        \A i \in 1..(Len(f) - 1) : f[i].index.day < f[i + 1].index.day}

\* DataFrames the '1y' query may return; only the Close column is read.
HistoricalFrames == SeqsUpTo([Close : Closes], MaxHist)

-----------------------------------------------------------------------------
(* Number formatting *)

Digit(d) == <<"0", "1", "2", "3", "4", "5", "6", "7", "8", "9">>[d + 1]

RECURSIVE NatStr(_)
NatStr(n) == IF n < 10 THEN Digit(n) ELSE NatStr(n \div 10) \o Digit(n % 10)

Pad2(n) == Digit(n \div 10) \o Digit(n % 10)
Pad3(n) == Digit(n \div 100) \o Pad2(n % 100)
Pad4(n) == Digit(n \div 1000) \o Pad3(n % 1000)

\* the ',' option of the format mini-language: groups of three digits
RECURSIVE Grouped(_)
Grouped(n) == IF n < 1000 THEN NatStr(n) ELSE Grouped(n \div 1000) \o "," \o Pad3(n % 1000)

Abs(n) == IF n < 0 THEN 0 - n ELSE n

\* format_price: f"${price:,.2f}" of a price in cents
format_price(price) ==
    "$" \o (IF price < 0 THEN "-" ELSE "")
        \o Grouped(Abs(price) \div 100) \o "." \o Pad2(Abs(price) % 100)

\* repr() of a price as json.dumps writes a float: shortest decimal, at least one
\* fractional digit
FloatRepr(price) ==
    LET c == Abs(price) % 100
    IN  (IF price < 0 THEN "-" ELSE "") \o NatStr(Abs(price) \div 100) \o "." \o
        (IF c % 10 = 0 THEN Digit(c \div 10) ELSE Pad2(c))

\* strftime('%Y-%m-%d')
strftime(ts) == Pad4(ts.year) \o "-" \o Pad2(ts.month) \o "-" \o Pad2(ts.day)

\* ((current_price - year_ago_price) / year_ago_price) * 100, year_ago_price # 0
\* variant: the return rounded to two decimals when it is computed
YearReturnRounded(cur, ago) ==
    LET whole == (IF cur < ago THEN ago - cur ELSE cur - ago) * 100
        h == (whole \div ago) * 100 + ((whole % ago) * 100) \div ago
    IN  [num |-> IF cur < ago THEN 0 - h ELSE h, den |-> 100]

\* for prices >= 0: the numerator (cur - ago) * 100 over the denominator ago
YearReturn(cur, ago) == [num |-> (cur - ago) * 100, den |-> ago]

\* return_value >= 0
NonNegative(r) == r.num >= 0

\* |r| in hundredths, rounded half to even as the .2f conversion rounds; the
\* long division is done in two steps to stay within 32-bit integers
Hundredths(r) ==
    LET whole == Abs(r.num) \div r.den
        frac == (Abs(r.num) % r.den) * 100
        h == whole * 100 + frac \div r.den
        rem == frac % r.den
    IN  IF 2 * rem > r.den THEN h + 1
        ELSE IF 2 * rem = r.den THEN h + (h % 2)
        ELSE h

\* f"{return_value:.2f}": the sign of a negative value is kept even when the
\* digits round to 0.00
Fixed2(r) ==
    (IF r.num < 0 THEN "-" ELSE "") \o
    NatStr(Hundredths(r) \div 100) \o "." \o Pad2(Hundredths(r) % 100)

\* repr() of the unrounded year_return as json.dumps writes it: the full value,
\* written here as the fraction it is
FullRepr(r) ==
    (IF r.num < 0 THEN "-" ELSE "") \o NatStr(Abs(r.num)) \o "/" \o NatStr(r.den)

-----------------------------------------------------------------------------
(* Standard output *)

MsgNoCurrent == <<"Error: Could not fetch current S&P 500 data">>
MsgInsufficient == <<"Error: Insufficient historical data">>
MsgNotInstalled == <<"Error: yfinance not installed. Run: pip3 install yfinance">>
MsgException(e) == <<"Error fetching data: ", e>>
MsgUsage == <<"usage: main.py [-h] [--json] [--no-color]">>

ErrorMessages ==
    {MsgNoCurrent, MsgInsufficient, MsgNotInstalled}
    \cup {MsgException(e) : e \in {"provider error", "float division by zero",
                                   "single positional indexer is out-of-bounds"}}

AnsiCodes == {"ESC[92m", "ESC[91m", "ESC[1m", "ESC[0m", "ESC[94m", "ESC[93m"}

\* variant: the terminal is not consulted
UseColorIgnoringTty(colorize, tty) == colorize

\* the condition of line 71
UseColor(colorize, tty) == colorize /\ tty

Palette(colorize, tty) ==
    IF UseColor(colorize, tty)
    THEN [GREEN |-> "ESC[92m", RED |-> "ESC[91m", BOLD |-> "ESC[1m",
          RESET |-> "ESC[0m", BLUE |-> "ESC[94m", YELLOW |-> "ESC[93m"]
    ELSE [GREEN |-> "", RED |-> "", BOLD |-> "", RESET |-> "", BLUE |-> "", YELLOW |-> ""]

RECURSIVE Repeat(_, _)
Repeat(s, n) == IF n = 0 THEN "" ELSE s \o Repeat(s, n - 1)

\* color = GREEN if return_value >= 0 else RED
ColorOf(c, return_value) == IF NonNegative(return_value) THEN c.GREEN ELSE c.RED

\* variant: the sign is chosen by a strict comparison
SignOfStrict(return_value) == IF return_value.num > 0 THEN "+" ELSE ""

\* sign = '+' if return_value >= 0 else ''
SignOf(return_value) == IF NonNegative(return_value) THEN "+" ELSE ""

\* the print() calls of display_return(data, colorize) on a stdout whose isatty() is tty
display_return(d, colorize, tty) ==
    IF d = None THEN <<>>
    ELSE LET c == Palette(colorize, tty)
             return_value == d.year_return
             color == ColorOf(c, return_value)
             sign == SignOf(return_value)
             rule == Repeat("=", 50)
         IN  << <<"\n", c.BOLD, rule, c.RESET>>,
                <<c.BOLD, "       S&P 500 ONE-YEAR RETURN", c.RESET>>,
                <<c.BOLD, rule, c.RESET, "\n">>,
                <<c.BOLD, color, "  ", sign, Fixed2(return_value), "%", c.RESET>>,
                <<>>,
                <<c.BOLD, "Details:", c.RESET>>,
                <<"  Current Price:      ", format_price(d.current_price)>>,
                <<"  Price 1 Year Ago:   ", format_price(d.year_ago_price)>>,
                <<"  As of:              ", d.date>>,
                <<"\n", c.BOLD, rule, c.RESET, "\n">> >>

\* the print() call of display_json(data): json.dumps(data, indent=2)
display_json(d) ==
    IF d = None THEN <<>>
    ELSE << <<"{\n  \"current_price\": ", FloatRepr(d.current_price),
              ",\n  \"year_ago_price\": ", FloatRepr(d.year_ago_price),
              ",\n  \"year_return\": ", FullRepr(d.year_return),
              ",\n  \"date\": \"", d.date, "\"\n}">> >>

-----------------------------------------------------------------------------
(* get_sp500_year_return *)

\* variant: the emptiness check is missing
EmptyUnchecked(frame) == FALSE

\* current_data.empty
Empty(frame) == Len(frame) = 0

\* variant: a single historical row is accepted
InsufficientOffByOne(frame) == Len(frame) < 1

\* len(historical_data) < 2
Insufficient(frame) == Len(frame) < 2

\* frame['Close'].iloc[-1] and frame['Close'].iloc[0]; both raise IndexError on
\* a frame without rows
Last(frame) == frame[Len(frame)]
First(frame) == frame[1]

\* variant: the failure is swallowed without a message
ReturnNoneSilently(msg) ==
    /\ out' = out
    /\ data' = None
    /\ fpc' = "done"

\* return None after print(msg): lines 26-27, 33-34, 47-48, 50-51
ReturnNone(msg) ==
    /\ out' = Append(out, msg)
    /\ data' = None
    /\ fpc' = "done"

\* the dict of lines 40-45
Result(cur, ago, frame) ==
    [current_price |-> cur,
     year_ago_price |-> ago,
     year_return |-> YearReturn(cur, ago),
     date |-> strftime(Last(frame).index)]

\* import yfinance as yf; sp500 = yf.Ticker('^GSPC')
ImportYfinance ==
    /\ pc = "Fetching" /\ fpc = "import"
    /\ \/ /\ fpc' = "current"
          /\ UNCHANGED <<out, data>>
       \/ ReturnNone(MsgNotInstalled)
    /\ UNCHANGED <<argv, isatty, pc, args, current_data, historical_data,
                   current_price, year_ago_price, bound, calls, exit_code>>

\* current_data = sp500.history(period='1d') ... current_price = float(...)
QueryCurrent ==
    /\ pc = "Fetching" /\ fpc = "current"
    /\ calls' = [calls EXCEPT !.history_1d = @ + 1]
    /\ \/ /\ ReturnNone(MsgException("provider error"))
          /\ UNCHANGED <<current_data, current_price, bound>>
       \/ \E frame \in CurrentFrames :
            /\ current_data' = frame
            /\ IF Empty(frame)
               THEN /\ ReturnNone(MsgNoCurrent)
                    /\ bound' = bound \cup {"current_data"}
                    /\ UNCHANGED current_price
               ELSE IF Len(frame) = 0
               THEN /\ ReturnNone(MsgException("single positional indexer is out-of-bounds"))
                    /\ bound' = bound \cup {"current_data"}
                    /\ UNCHANGED current_price
               ELSE /\ current_price' = Last(frame).Close
                    /\ bound' = bound \cup {"current_data", "current_price"}
                    /\ fpc' = "historical"
                    /\ UNCHANGED <<out, data>>
    /\ UNCHANGED <<argv, isatty, pc, args, historical_data, year_ago_price, exit_code>>

\* historical_data = sp500.history(period='1y') ... year_ago_price = float(...)
QueryHistorical ==
    /\ pc = "Fetching" /\ fpc = "historical"
    /\ calls' = [calls EXCEPT !.history_1y = @ + 1]
    /\ \/ /\ ReturnNone(MsgException("provider error"))
          /\ UNCHANGED <<historical_data, year_ago_price, bound>>
       \/ \E frame \in HistoricalFrames :
            /\ historical_data' = frame
            /\ IF Insufficient(frame)
               THEN /\ ReturnNone(MsgInsufficient)
                    /\ bound' = bound \cup {"historical_data"}
                    /\ UNCHANGED year_ago_price
               ELSE IF Len(frame) = 0
               THEN /\ ReturnNone(MsgException("single positional indexer is out-of-bounds"))
                    /\ bound' = bound \cup {"historical_data"}
                    /\ UNCHANGED year_ago_price
               ELSE /\ year_ago_price' = First(frame).Close
                    /\ bound' = bound \cup {"historical_data", "year_ago_price"}
                    /\ fpc' = "compute"
                    /\ UNCHANGED <<out, data>>
    /\ UNCHANGED <<argv, isatty, pc, args, current_data, current_price, exit_code>>

\* variant: a zero divisor goes unnoticed
DivisionNeverRaises(divisor) == FALSE

\* x / y on floats raises ZeroDivisionError exactly when y == 0.0
DivisionRaises(divisor) == divisor = 0

\* year_return = ... ; return {...}: the float division raises ZeroDivisionError
\* on a zero divisor, which the handler of line 49 catches
Compute ==
    /\ pc = "Fetching" /\ fpc = "compute"
    /\ IF DivisionRaises(year_ago_price)
       THEN ReturnNone(MsgException("float division by zero"))
       ELSE /\ data' = Result(current_price, year_ago_price, current_data)
            /\ fpc' = "done"
            /\ UNCHANGED out
    /\ UNCHANGED <<argv, isatty, pc, args, current_data, historical_data,
                   current_price, year_ago_price, bound, calls, exit_code>>

-----------------------------------------------------------------------------
(* main *)

\* variant: the failure exit reports success
ExitStatusAlwaysZero(at) == 0

\* the status the process ends with when main() ends at position at:
\* sys.exit(1) in the failure branch, 0 when main() returns after rendering
ExitStatus(at) == IF at = "Failed" THEN 1 ELSE 0

\* variant: the None check is missing
AfterFetchUnchecked(d) == "Rendering"

\* the branch of line 141 on the value get_sp500_year_return() returned
AfterFetch(d) == IF d = None THEN "Failed" ELSE "Rendering"

\* variant: the failure branch does not leave main()
AfterSysExitFallsThrough == "Rendering"

\* where main() is once sys.exit(1) has run
AfterSysExit == "Exit"

\* args = parser.parse_args(): -h/--help prints the usage and exits 0, an
\* unrecognised argument exits 2 (message on stderr), before anything is fetched
ParseArgs ==
    /\ pc = "Start"
    /\ IF "--help" \in argv
       THEN /\ out' = Append(out, MsgUsage)
            /\ pc' = "Exit" /\ exit_code' = 0
            /\ UNCHANGED <<args, fpc>>
       ELSE IF argv \ {"--json", "--no-color"} # {}
       THEN /\ pc' = "Exit" /\ exit_code' = 2
            /\ UNCHANGED <<args, fpc, out>>
       ELSE /\ args' = [json |-> "--json" \in argv, no_color |-> "--no-color" \in argv]
            /\ pc' = "Fetching" /\ fpc' = "import"
            /\ UNCHANGED <<out, exit_code>>
    /\ UNCHANGED <<argv, isatty, current_data, historical_data,
                   current_price, year_ago_price, bound, data, calls>>

\* data = get_sp500_year_return(); if data is None:
FetchReturns ==
    /\ pc = "Fetching" /\ fpc = "done"
    /\ pc' = AfterFetch(data)
    /\ UNCHANGED <<argv, isatty, fpc, args, current_data, historical_data,
                   current_price, year_ago_price, bound, data, out, calls, exit_code>>

\* sys.exit(1)
SysExit ==
    /\ pc = "Failed"
    /\ pc' = AfterSysExit
    /\ exit_code' = ExitStatus(pc)
    /\ UNCHANGED <<argv, isatty, fpc, args, current_data, historical_data,
                   current_price, year_ago_price, bound, data, out, calls>>

\* if args.json: display_json(data), then main() returns
CallDisplayJson ==
    /\ pc = "Rendering" /\ args.json
    /\ out' = out \o display_json(data)
    /\ calls' = [calls EXCEPT !.display_json = @ + 1]
    /\ pc' = "Exit" /\ exit_code' = ExitStatus(pc)
    /\ UNCHANGED <<argv, isatty, fpc, args, current_data, historical_data,
                   current_price, year_ago_price, bound, data>>

\* else: display_return(data, colorize=not args.no_color), then main() returns
CallDisplayReturn ==
    /\ pc = "Rendering" /\ ~args.json
    /\ out' = out \o display_return(data, ~args.no_color, isatty)
    /\ calls' = [calls EXCEPT !.display_return = @ + 1]
    /\ pc' = "Exit" /\ exit_code' = ExitStatus(pc)
    /\ UNCHANGED <<argv, isatty, fpc, args, current_data, historical_data,
                   current_price, year_ago_price, bound, data>>

-----------------------------------------------------------------------------

Init ==
    /\ argv \in SUBSET Arguments
    /\ isatty \in BOOLEAN
    /\ pc = "Start"
    /\ fpc = "idle"
    /\ args = Unbound
    /\ current_data = <<>>
    /\ historical_data = <<>>
    /\ current_price = 0
    /\ year_ago_price = 0
    /\ bound = {}
    /\ data = Unbound
    /\ out = <<>>
    /\ calls = [history_1d |-> 0, history_1y |-> 0, display_json |-> 0, display_return |-> 0]
    /\ exit_code = NoExit

Next ==
    \/ ParseArgs
    \/ ImportYfinance
    \/ QueryCurrent
    \/ QueryHistorical
    \/ Compute
    \/ FetchReturns
    \/ SysExit
    \/ CallDisplayJson
    \/ CallDisplayReturn

Spec == Init /\ [][Next]_vars

-----------------------------------------------------------------------------
(* Vocabulary of the properties *)

\* the whole-program state of the run
ProgramState ==
    IF pc # "Exit" THEN pc
    ELSE IF exit_code = 0 THEN "Exit(0)"
    ELSE IF exit_code = 1 THEN "Exit(1)"
    ELSE "Exit(2)"

HasResult == data # Unbound /\ data # None
FetchFailed == data = None
Exited == pc = "Exit"
Printed(line) == \E i \in DOMAIN out : out[i] = line
HasAnsi(line) == \E j \in DOMAIN line : line[j] \in AnsiCodes
Rendered == calls.display_json + calls.display_return

\* the print() call of line 92, once display_return has run on a result
ReturnLine == out[Len(out) - 6]

\* the strings "-d.dd" and "d.dd"
TwoDecimals == {NatStr(a) \o "." \o Pad2(b) : a \in 0..100, b \in 0..99}
NegativeTwoDecimals == {"-" \o t : t \in TwoDecimals}

-----------------------------------------------------------------------------
(* Properties *)

\* C1: once main() has terminated after calling get_sp500_year_return(), the
\* exit code is 0 if the fetch produced a result and 1 if it returned None,
\* whatever the cause of the failure and whatever --json / --no-color say.
C1_ExitCode ==
    (Exited /\ fpc = "done") =>
        /\ HasResult => exit_code = 0
        /\ FetchFailed => exit_code = 1
        /\ HasResult \/ FetchFailed
        /\ (\E i \in DOMAIN out : out[i] \in ErrorMessages) => exit_code = 1

C1_Witness ==
    /\ Exited /\ FetchFailed /\ exit_code = 1
    /\ Printed(MsgNotInstalled)
    /\ argv = {"--json", "--no-color"}

C3_NoCurrentData ==
    ("current_data" \in bound /\ Len(current_data) = 0) =>
        /\ FetchFailed
        /\ out = <<MsgNoCurrent>>
        /\ calls.history_1y = 0
        /\ Rendered = 0
        /\ pc \in {"Fetching", "Failed", "Exit"}
        /\ Exited => exit_code = 1

C3_Witness ==
    /\ "current_data" \in bound /\ Len(current_data) = 0
    /\ Exited /\ exit_code = 1
    /\ args.json

\* C4: given a non-empty latest-data series, a one-year series with fewer than
\* 2 rows makes the fetch return None with the "insufficient historical data"
\* message; with 2 or more rows that failure does not occur, the fetch goes on
\* with year_ago_price the first close of the series, and a result, when one is
\* returned, carries that first close as year_ago_price.
C4_History ==
    "historical_data" \in bound =>
        /\ "current_price" \in bound /\ Len(current_data) > 0
        /\ IF Len(historical_data) < 2
           THEN /\ FetchFailed
                /\ out = <<MsgInsufficient>>
                /\ "year_ago_price" \notin bound
           ELSE /\ ~Printed(MsgInsufficient)
                /\ "year_ago_price" \in bound
                /\ year_ago_price = historical_data[1].Close
                /\ HasResult => data.year_ago_price = historical_data[1].Close
                /\ FetchFailed => historical_data[1].Close = 0

C4_Witness ==
    /\ "historical_data" \in bound
    /\ Len(historical_data) = 3
    /\ historical_data[1].Close # historical_data[2].Close
    /\ historical_data[1].Close # historical_data[3].Close
    /\ HasResult
    /\ Exited

\* C5: a print() call holds an ANSI escape sequence only if --no-color is
\* absent and standard output is a terminal.
C5_Ansi ==
    \A i \in DOMAIN out :
        HasAnsi(out[i]) => ("--no-color" \notin argv /\ isatty)

C5_Witness ==
    /\ calls.display_return = 1
    /\ ~isatty
    /\ "--no-color" \notin argv
    /\ Len(out) = 10

\* C6: in text mode the return line shows '+' and, when coloured, green for a
\* return >= 0; no '+', the number's own '-' and, when coloured, red for a
\* return < 0; so '+' never goes with red nor a negative value with green.
C6_SignAndColour ==
    calls.display_return = 1 =>
        LET line == ReturnLine
            coloured == "--no-color" \notin argv /\ isatty
            negative == data.year_return.num < 0
        IN  /\ HasResult /\ Len(line) = 7 /\ line[6] = "%"
            /\ ~negative =>
                 /\ line[4] = "+"
                 /\ line[5] \in TwoDecimals
                 /\ line[2] = (IF coloured THEN "ESC[92m" ELSE "")
            /\ negative =>
                 /\ line[4] = ""
                 /\ line[5] \in NegativeTwoDecimals
                 /\ line[2] = (IF coloured THEN "ESC[91m" ELSE "")
            /\ ~(line[4] = "+" /\ line[2] = "ESC[91m")
            /\ ~(negative /\ line[2] = "ESC[92m")

C6_Witness ==
    /\ calls.display_return = 1
    /\ data.current_price = 449999 /\ data.year_ago_price = 450000
    /\ ReturnLine = <<"ESC[1m", "ESC[91m", "  ", "", "-0.00", "%", "ESC[0m">>

\* C7: a result exists only when both series delivered a price; its
\* current_price is the last close of the latest-data series, its
\* year_ago_price the first close of the one-year series, and its year_return
\* is exactly (current_price - year_ago_price) * 100 over year_ago_price,
\* unrounded.
C7_Formula ==
    HasResult =>
        /\ {"current_data", "current_price", "historical_data", "year_ago_price"} \subseteq bound
        /\ Len(current_data) > 0 /\ Len(historical_data) >= 2
        /\ data.current_price = current_data[Len(current_data)].Close
        /\ data.year_ago_price = historical_data[1].Close
        /\ data.year_return.den = data.year_ago_price
        /\ data.year_return.num = (data.current_price - data.year_ago_price) * 100

C7_Witness ==
    /\ HasResult
    /\ Len(current_data) = 2
    /\ current_data[1].Close = 450000
    /\ data.current_price = 500000 /\ data.year_ago_price = 449999
    /\ data.year_return = [num |-> 5000100, den |-> 449999]

\* C8: after a failed fetch neither display function runs and no JSON is
\* printed; a display function runs only when a result exists, at most one
\* runs, and which one is decided by --json.
C8_Presenter ==
    /\ Rendered \in {0, 1}
    /\ FetchFailed => /\ Rendered = 0
                      /\ \A i \in DOMAIN out : out[i] \in ErrorMessages
    /\ Rendered = 1 => HasResult
    /\ calls.display_json = 1 => "--json" \in argv
    /\ calls.display_return = 1 => "--json" \notin argv
    /\ (Exited /\ HasResult) => Rendered = 1
    /\ (Exited /\ HasResult /\ "--json" \in argv) => Len(out) = 1
    /\ (Exited /\ HasResult /\ "--json" \notin argv) => Len(out) = 10

C8_Witness ==
    /\ Exited /\ FetchFailed
    /\ "--json" \in argv
    /\ Printed(MsgException("float division by zero"))

\* C9: each provider query is issued at most once; a failed fetch has printed
\* exactly one error message and returned None, also when a query raises, and
\* a returned result is complete.
C9_Failure ==
    /\ calls.history_1d <= 1 /\ calls.history_1y <= 1
    /\ fpc = "done" => (FetchFailed \/ HasResult)
    /\ FetchFailed => /\ fpc = "done"
                      /\ Len(out) = 1 /\ out[1] \in ErrorMessages
    /\ (fpc = "done" /\ calls.history_1d = 1 /\ "current_data" \notin bound) =>
          (FetchFailed /\ out = <<MsgException("provider error")>>)
    /\ (fpc = "done" /\ calls.history_1y = 1 /\ "historical_data" \notin bound) =>
          (FetchFailed /\ out = <<MsgException("provider error")>>)
    /\ HasResult => /\ DOMAIN data = {"current_price", "year_ago_price", "year_return", "date"}
                    /\ ~(\E i \in DOMAIN out : out[i] \in ErrorMessages)

C9_Witness ==
    /\ Exited /\ FetchFailed
    /\ calls.history_1d = 1 /\ calls.history_1y = 1
    /\ "current_price" \in bound /\ "historical_data" \notin bound
    /\ out = <<MsgException("provider error")>>

\* C10: no result has year_ago_price 0; when the latest-data series is
\* non-empty and the one-year series has at least 2 rows of which the first
\* closes at 0, the fetch has failed with the ZeroDivisionError message once it
\* returns, nothing is rendered and the exit code is 1.
C10_ZeroDivisor ==
    /\ HasResult => data.year_ago_price # 0
    /\ ( /\ fpc = "done"
         /\ "current_price" \in bound /\ "year_ago_price" \in bound
         /\ historical_data[1].Close = 0 ) =>
            /\ FetchFailed
            /\ out = <<MsgException("float division by zero")>>
            /\ Rendered = 0
            /\ pc # "Rendering"
            /\ Exited => exit_code = 1

C10_Witness ==
    /\ Exited /\ exit_code = 1
    /\ Len(current_data) > 0 /\ Len(historical_data) = 3
    /\ historical_data[1].Close = 0 /\ historical_data[3].Close = 500000
    /\ "year_ago_price" \in bound

====
